---------------------------- MODULE Spec2Model ----------------------------
(***************************************************************************)
(* A model of OBS_OSC.py: the OSC datagram decoder of class OSCListener    *)
(* (packet_received, process_message_at and its byte helpers), the         *)
(* address router (dispatch_message and the dispatch_obs_* methods) and    *)
(* the module-level command functions that call into obspython.            *)
(*                                                                         *)
(* Bytes are the integers 0..255.  A Python str is the sequence of its     *)
(* character codes.  Python indices are 0-based: byte i of a buffer d is   *)
(* d[i+1].                                                                 *)
(***************************************************************************)
EXTENDS Integers, Sequences, FiniteSets, TLC

(***************************************************************************)
(* Character codes the code compares against.                              *)
(***************************************************************************)
Slash == 47
Comma == 44
TagF == 102
TagI == 105
TagS == 115

(* The strings of the routing code, as character codes.                    *)
W_obs == <<111, 98, 115>>
W_source == <<115, 111, 117, 114, 99, 101>>
W_transition == <<116, 114, 97, 110, 115, 105, 116, 105, 111, 110>>
W_scene == <<115, 99, 101, 110, 101>>
W_go == <<103, 111>>
W_recording == <<114, 101, 99, 111, 114, 100, 105, 110, 103>>
W_streaming == <<115, 116, 114, 101, 97, 109, 105, 110, 103>>
W_volume == <<118, 111, 108, 117, 109, 101>>
W_start == <<115, 116, 97, 114, 116>>
W_duration == <<100, 117, 114, 97, 116, 105, 111, 110>>
W_select == <<115, 101, 108, 101, 99, 116>>
W_preview == <<112, 114, 101, 118, 105, 101, 119>>
W_stop == <<115, 116, 111, 112>>

(***************************************************************************)
(* Byte helpers of OSCListener.                                            *)
(***************************************************************************)
RECURSIVE next_zero(_, _, _)
next_zero(d, msglen, si) ==
    IF si < msglen /\ d[si + 1] # 0 THEN next_zero(d, msglen, si + 1) ELSE si

(* A faulty padding: rounds the length up to a multiple of 4, leaving no    *)
(* room for the terminator of a string whose length is a multiple of 4.    *)
next_index_for_string_roundup(s, start) == start + ((Len(s) + 3) \div 4) * 4

next_index_for_string(s, start) == start + ((Len(s) \div 4) + 1) * 4

(* A faulty alignment: rounds up to a multiple of 4, so an index that is   *)
(* one already stays where it is.                                          *)
next_index_for_index_roundup(i) == ((i + 3) \div 4) * 4

(* math.trunc(i / 4) + 1, times 4: the float quotient i / 4 is exact for   *)
(* every index of a datagram (exact below 2^53).                           *)
next_index_for_index(i) == ((i \div 4) + 1) * 4

string_from_index(d, si) ==
    LET z == next_zero(d, Len(d), si) IN
    IF si < z THEN SubSeq(d, si + 1, z) ELSE << >>

startswith_slash(s) == Len(s) > 0 /\ s[1] = Slash

(***************************************************************************)
(* Decoded arguments.  An argument is [t |-> tag, v |-> bytes]: for "f"    *)
(* and "i" the four big-endian bytes struct.unpack_from read, for "s" the  *)
(* characters of the string.  A float32 is exact as a Python float, so its *)
(* four bytes identify the value.                                          *)
(***************************************************************************)
unpack4(d, dl) == SubSeq(d, dl + 1, dl + 4)

FloatArg(d, dl) == [t |-> "f", v |-> unpack4(d, dl)]
IntArg(d, dl) == [t |-> "i", v |-> unpack4(d, dl)]
StrArg(s) == [t |-> "s", v |-> s]

(***************************************************************************)
(* The argument loop of process_message_at (lines 223-245): tl is the      *)
(* index of the next type-tag character, dl the index of the next value.   *)
(* The result holds the argument list, the final dl, oi (0, or -1 once the *)
(* scan of the packet is to stop) and err (an IndexError on data[tl]).     *)
(***************************************************************************)
RECURSIVE arg_loop(_, _, _, _, _)
arg_loop(d, msglen, tl, dl, args) ==
    IF ~(dl + 4 <= msglen)
    THEN [args |-> args, dl |-> dl, oi |-> 0, err |-> FALSE]
    ELSE IF tl >= msglen
    THEN [args |-> args, dl |-> dl, oi |-> 0, err |-> TRUE]
    ELSE IF d[tl + 1] = 0
    THEN [args |-> args, dl |-> dl, oi |-> 0, err |-> FALSE]
    ELSE IF d[tl + 1] = TagF
    THEN arg_loop(d, msglen, tl + 1, dl + 4, Append(args, FloatArg(d, dl)))
    ELSE IF d[tl + 1] = TagI
    THEN arg_loop(d, msglen, tl + 1, dl, Append(args, IntArg(d, dl)))
    ELSE IF d[tl + 1] = TagS
    THEN LET es == next_zero(d, msglen, dl) IN
         IF es <= msglen
         THEN arg_loop(d, msglen, tl + 1, next_index_for_index(es),
                       Append(args, StrArg(string_from_index(d, dl))))
         ELSE [args |-> args, dl |-> dl, oi |-> -1, err |-> FALSE]
    ELSE [args |-> args, dl |-> dl, oi |-> -1, err |-> FALSE]

(***************************************************************************)
(* The indices of self.data that a call reads: next_zero and               *)
(* string_from_index read data[i] at every i they visit, the argument loop *)
(* reads data[tl], struct.unpack_from reads the four bytes from dl.        *)
(***************************************************************************)
next_zero_reads(d, msglen, si) ==
    LET z == next_zero(d, msglen, si)
    IN  si..(IF z < msglen THEN z ELSE msglen - 1)

string_from_index_reads(d, si) == next_zero_reads(d, Len(d), si)

(* A faulty read of 8 bytes, as struct.unpack_from('>d') would make.       *)
unpack_from_reads_double(dl) == dl..(dl + 7)

unpack_from_reads(dl) == dl..(dl + 3)

RECURSIVE arg_loop_reads(_, _, _, _)
arg_loop_reads(d, msglen, tl, dl) ==
    IF ~(dl + 4 <= msglen) THEN {}
    ELSE {tl} \cup
         (IF tl >= msglen THEN {}
          ELSE IF d[tl + 1] = 0 THEN {}
          ELSE IF d[tl + 1] = TagF
          THEN unpack_from_reads(dl) \cup arg_loop_reads(d, msglen, tl + 1, dl + 4)
          ELSE IF d[tl + 1] = TagI
          THEN unpack_from_reads(dl) \cup arg_loop_reads(d, msglen, tl + 1, dl)
          ELSE IF d[tl + 1] = TagS
          THEN LET es == next_zero(d, msglen, dl) IN
               next_zero_reads(d, msglen, dl) \cup
               (IF es <= msglen
                THEN string_from_index_reads(d, dl) \cup
                     arg_loop_reads(d, msglen, tl + 1, next_index_for_index(es))
                ELSE {})
          ELSE {})

process_message_at_reads(d, msglen, si) ==
    LET zl == next_zero(d, msglen, si) IN
    next_zero_reads(d, msglen, si) \cup
    (IF zl + 4 < msglen
     THEN LET addressPattern == string_from_index(d, si) IN
          string_from_index_reads(d, si) \cup
          (IF startswith_slash(addressPattern)
           THEN LET tl == next_index_for_string(addressPattern, si)
                    dl == next_index_for_index(next_zero(d, msglen, tl))
                IN  next_zero_reads(d, msglen, tl) \cup
                    (IF dl + 4 <= msglen
                     THEN {tl} \cup
                          arg_loop_reads(d, msglen,
                                         IF d[tl + 1] = Comma THEN tl + 1 ELSE tl,
                                         dl)
                     ELSE {})
           ELSE {})
     ELSE {})

(***************************************************************************)
(* process_message_at without the call of dispatch_message: what it        *)
(* returns (ret), whether it calls dispatch_message (emit) and with which  *)
(* address pattern and argument list.                                      *)
(***************************************************************************)
NoMessage(ret) ==
    [ret |-> ret, emit |-> FALSE, addr |-> << >>, args |-> << >>, err |-> FALSE]

decode_message_at(d, msglen, si) ==
    LET zl == next_zero(d, msglen, si) IN
    IF zl + 4 < msglen
    THEN LET addressPattern == string_from_index(d, si) IN
         IF startswith_slash(addressPattern)
         THEN LET tl == next_index_for_string(addressPattern, si)
                  dl == next_index_for_index(next_zero(d, msglen, tl))
              IN  IF dl + 4 <= msglen
                  THEN LET tl1 == IF d[tl + 1] = Comma THEN tl + 1 ELSE tl
                           r == arg_loop(d, msglen, tl1, dl, << >>)
                       IN  [ret |-> IF r.oi # -1 THEN r.dl ELSE -1,
                            emit |-> ~r.err, addr |-> addressPattern,
                            args |-> r.args, err |-> r.err]
                  ELSE [ret |-> -1, emit |-> TRUE, addr |-> addressPattern,
                        args |-> << >>, err |-> FALSE]
         ELSE NoMessage(0)
    ELSE NoMessage(-1)

(***************************************************************************)
(* Python conversions used by the router.  A conversion yields             *)
(* [err |-> BOOLEAN, v |-> Int]; err is the ValueError, OverflowError or   *)
(* IndexError the Python expression raises.                                *)
(***************************************************************************)
Ok(v) == [err |-> FALSE, v |-> v]
Raises == [err |-> TRUE, v |-> 0]

Pow2(k) == 2 ^ k

(* struct.unpack_from('>i', ...): big-endian two's complement.             *)
Int32(b) ==
    (IF b[1] >= 128 THEN b[1] - 256 ELSE b[1]) * 16777216
        + b[2] * 65536 + b[3] * 256 + b[4]

(* int(x) of a float32 read by struct.unpack_from('>f', ...): truncation   *)
(* toward zero; NaN and the infinities raise.                              *)
FloatExp(b) == (b[1] % 128) * 2 + (b[2] \div 128)
FloatMant(b) == (b[2] % 128) * 65536 + b[3] * 256 + b[4]
FloatToInt(b) ==
    LET e == FloatExp(b)
        sig == 8388608 + FloatMant(b)
        mag == IF e < 127 THEN 0
               ELSE IF e <= 150 THEN sig \div Pow2(150 - e)
               ELSE sig * Pow2(e - 150)
    IN  IF e = 255 THEN Raises
        ELSE Ok(IF b[1] >= 128 THEN 0 - mag ELSE mag)

(* int(s) of a str: optional surrounding whitespace, an optional sign,     *)
(* decimal digits, single underscores allowed between digits.              *)
IsSpace(c) == c \in {9, 10, 11, 12, 13, 28, 29, 30, 31, 32, 133, 160}
IsDigit(c) == c >= 48 /\ c <= 57

RECURSIVE lstrip(_)
lstrip(s) == IF Len(s) > 0 /\ IsSpace(s[1]) THEN lstrip(Tail(s)) ELSE s

RECURSIVE rstrip(_)
rstrip(s) ==
    IF Len(s) > 0 /\ IsSpace(s[Len(s)])
    THEN rstrip(SubSeq(s, 1, Len(s) - 1)) ELSE s

RECURSIVE digits_value(_, _, _)
digits_value(s, acc, afterDigit) ==
    IF Len(s) = 0 THEN (IF afterDigit THEN Ok(acc) ELSE Raises)
    ELSE IF IsDigit(s[1]) THEN digits_value(Tail(s), acc * 10 + (s[1] - 48), TRUE)
    ELSE IF s[1] = 95 /\ afterDigit THEN digits_value(Tail(s), acc, FALSE)
    ELSE Raises

int_of_str(s) ==
    LET t == rstrip(lstrip(s))
        neg == Len(t) > 0 /\ t[1] = 45
        body == IF Len(t) > 0 /\ t[1] \in {43, 45} THEN Tail(t) ELSE t
        r == IF Len(body) > 0 /\ IsDigit(body[1])
             THEN digits_value(body, 0, FALSE) ELSE Raises
    IN  IF r.err THEN Raises ELSE Ok(IF neg THEN 0 - r.v ELSE r.v)

(* int(args[0]) in dispatch_obs_transition.                                *)
int_of_arg0(args) ==
    IF Len(args) = 0 THEN Raises
    ELSE IF args[1].t = "i" THEN Ok(Int32(args[1].v))
    ELSE IF args[1].t = "f" THEN FloatToInt(args[1].v)
    ELSE int_of_str(args[1].v)

(* args[0] == 1.0: true of the float 1.0 and of the integer 1.             *)
equals_one(a) ==
    \/ a.t = "f" /\ a.v = <<63, 128, 0, 0>>
    \/ a.t = "i" /\ Int32(a.v) = 1

(* A faulty gate: looks at the first argument only, whatever the count.    *)
check_arg_one_first_only(args) == Len(args) >= 1 /\ equals_one(args[1])

check_arg_one(args) == Len(args) = 1 /\ equals_one(args[1])

(* addressPattern.split('/')                                               *)
RECURSIVE split_from(_, _, _)
split_from(s, cur, acc) ==
    IF Len(s) = 0 THEN Append(acc, cur)
    ELSE IF s[1] = Slash THEN split_from(Tail(s), << >>, Append(acc, cur))
    ELSE split_from(Tail(s), Append(cur, s[1]), acc)

split(s) == split_from(s, << >>, << >>)

(* parts[k] with Python's 0-based k.                                       *)
part(parts, k) == parts[k + 1]

(* float(volume) in source_volume, as the exact value m * 2^e with m odd   *)
(* (or m = 0): a float32 and an int32 are both exact as a Python float.    *)
(* e = InfExp marks the infinities (m = 1, -1) and NaN (m = 0).  Of the    *)
(* str literals float() accepts, the integer literals are modelled.        *)
InfExp == 1024

RECURSIVE norm(_, _)
norm(m, e) ==
    IF m = 0 THEN [err |-> FALSE, m |-> 0, e |-> 0]
    ELSE IF m % 2 = 0 THEN norm(m \div 2, e + 1)
    ELSE [err |-> FALSE, m |-> m, e |-> e]

float_of_arg(a) ==
    IF a.t = "i" THEN norm(Int32(a.v), 0)
    ELSE IF a.t = "f"
    THEN LET sgn == IF a.v[1] >= 128 THEN -1 ELSE 1
             ex == FloatExp(a.v)
             mant == FloatMant(a.v)
         IN  IF ex = 255
             THEN [err |-> FALSE, m |-> IF mant = 0 THEN sgn ELSE 0, e |-> InfExp]
             ELSE IF ex = 0 THEN norm(sgn * mant, -149)
             ELSE norm(sgn * (8388608 + mant), ex - 150)
    ELSE LET r == int_of_str(a.v) IN
         IF r.err THEN [err |-> TRUE, m |-> 0, e |-> 0] ELSE norm(r.v, 0)

(***************************************************************************)
(* The host (obspython), as far as the script reads it back: the scene     *)
(* list (scenes 0..nscenes-1 in list order), the transition list, the      *)
(* preview scene (None when there is none), the current transition and the *)
(* names of the sources.  A run r = [h, cmds, raised] is the host state,   *)
(* the state-changing obspython calls made so far by one dispatch_message  *)
(* call, in order, and whether a Python exception has been raised.         *)
(***************************************************************************)
None == -1

Cmd(op, a, b, c) == [op |-> op, a |-> a, b |-> b, c |-> c]

Call(r, c) == [r EXCEPT !.cmds = Append(@, c)]

Raise(r) == [r EXCEPT !.raised = TRUE]

set_preview(r, idx) ==
    IF idx < r.h.nscenes /\ idx >= 0
    THEN Call([r EXCEPT !.h.preview = idx],
              Cmd("set_current_preview_scene", idx, 0, 0))
    ELSE r

set_transition(r, idx) ==
    IF idx < r.h.ntrans /\ idx >= 0
    THEN Call([r EXCEPT !.h.curtrans = idx],
              Cmd("set_current_transition", idx, 0, 0))
    ELSE r

set_transition_duration(r, d, idx) ==
    LET trans == IF idx = -1 THEN r.h.curtrans
                 ELSE IF idx < r.h.ntrans /\ idx >= 0 THEN idx
                 ELSE None
    IN  IF trans # None
        THEN Call(r, Cmd("transition_enable_fixed", trans, d, 0))
        ELSE r

(* A faulty nextScene: no wrap to the first scene after the last one.      *)
nextScene_nowrap(h) == IF h.preview # None THEN h.preview + 1 ELSE 0

(* nextScene(); the scene list is not empty (comment at line 538).         *)
nextScene(h) ==
    IF h.nscenes > 1 /\ h.preview # None /\ h.preview + 1 < h.nscenes
    THEN h.preview + 1
    ELSE 0

transition(r, idx) ==
    LET r1 == IF idx >= 0 THEN set_transition(r, idx) ELSE r
        trans == r1.h.curtrans
        p_scene == r1.h.preview
    IN  Call(Call(r1, Cmd("transition_start", trans, p_scene, 0)),
             Cmd("set_current_scene", p_scene, 0, 0))

(* go() up to its time.sleep(2): the next scene is computed, then the      *)
(* transition is run; and go() from there on.                              *)
go_until_sleep(r, idx) ==
    [r |-> transition(r, idx), n_scene |-> nextScene(r.h)]

go_after_sleep(r, n_scene) ==
    Call([r EXCEPT !.h.preview = n_scene],
         Cmd("set_current_preview_scene", n_scene, 0, 0))

go(r, idx) ==
    LET g == go_until_sleep(r, idx) IN go_after_sleep(g.r, g.n_scene)

(* The last source whose name is src, as a position in h.sources, or 0.    *)
RECURSIVE find_source(_, _, _)
find_source(sources, src, i) ==
    IF i = 0 THEN 0
    ELSE IF sources[i] = src THEN i
    ELSE find_source(sources, src, i - 1)

source_volume(r, src, volume) ==
    LET found == IF src.t = "s"
                 THEN find_source(r.h.sources, src.v, Len(r.h.sources))
                 ELSE 0
        f == float_of_arg(volume)
    IN  IF found = 0 THEN r
        ELSE IF f.err THEN Raise(r)
        ELSE Call(r, Cmd("source_set_volume", found, f.m, f.e))

(***************************************************************************)
(* The router.  int(parts[k])-1 converts a 1-based index of the address to *)
(* the 0-based index of the host's list (wire_index_one_based is the       *)
(* faulty conversion that passes the index of the address on as it is).    *)
(***************************************************************************)
wire_index_one_based(seg) == int_of_str(seg)

wire_index(seg) ==
    LET n == int_of_str(seg) IN IF n.err THEN Raises ELSE Ok(n.v - 1)

(* A faulty router of /obs/source/...: no upper limit on the argument      *)
(* count.                                                                  *)
dispatch_obs_source_any_count(r, parts, args) ==
    IF Len(parts) = 4
    THEN IF part(parts, 3) = W_volume /\ Len(args) >= 2
         THEN source_volume(r, args[1], args[2]) ELSE r
    ELSE IF Len(parts) = 5
    THEN IF part(parts, 4) = W_volume /\ Len(args) >= 1
         THEN source_volume(r, StrArg(part(parts, 3)), args[1]) ELSE r
    ELSE r

dispatch_obs_source(r, parts, args) ==
    IF Len(parts) = 4
    THEN IF part(parts, 3) = W_volume /\ Len(args) = 2
         THEN source_volume(r, args[1], args[2]) ELSE r
    ELSE IF Len(parts) = 5
    THEN IF part(parts, 4) = W_volume /\ Len(args) = 1
         THEN source_volume(r, StrArg(part(parts, 3)), args[1]) ELSE r
    ELSE r

dispatch_obs_transition(r, parts, args) ==
    IF Len(parts) = 4
    THEN IF part(parts, 3) = W_start
         THEN IF check_arg_one(args) THEN transition(r, -1) ELSE r
         ELSE IF part(parts, 3) = W_duration
         THEN LET d == int_of_arg0(args) IN
              IF d.err THEN Raise(r) ELSE set_transition_duration(r, d.v, -1)
         ELSE r
    ELSE IF Len(parts) = 5
    THEN IF part(parts, 4) = W_start
         THEN IF check_arg_one(args)
              THEN LET n == wire_index(part(parts, 3)) IN
                   IF n.err THEN Raise(r) ELSE transition(r, n.v)
              ELSE r
         ELSE IF part(parts, 4) = W_select
         THEN IF check_arg_one(args)
              THEN LET n == wire_index(part(parts, 3)) IN
                   IF n.err THEN Raise(r) ELSE set_transition(r, n.v)
              ELSE r
         ELSE IF part(parts, 4) = W_duration
         THEN LET d == int_of_arg0(args)
                  n == wire_index(part(parts, 3))
              IN  IF d.err \/ n.err THEN Raise(r)
                  ELSE set_transition_duration(r, d.v, n.v)
         ELSE IF part(parts, 3) = W_duration
         THEN IF check_arg_one(args)
              THEN LET d == int_of_str(part(parts, 4)) IN
                   IF d.err THEN Raise(r)
                   ELSE set_transition_duration(r, d.v, -1)
              ELSE r
         ELSE r
    ELSE r

dispatch_obs_scene(r, parts, args) ==
    IF ~check_arg_one(args) THEN r
    ELSE IF Len(parts) = 5
    THEN IF part(parts, 4) \in {W_preview, W_start, W_go}
         THEN LET n == wire_index(part(parts, 3)) IN
              IF n.err THEN Raise(r)
              ELSE IF part(parts, 4) = W_preview THEN set_preview(r, n.v)
              ELSE IF part(parts, 4) = W_start
              THEN transition(set_preview(r, n.v), -1)
              ELSE go(set_preview(r, n.v), -1)
         ELSE r
    ELSE IF Len(parts) = 7
    THEN IF part(parts, 4) = W_transition /\ part(parts, 6) \in {W_start, W_go}
         THEN LET n == wire_index(part(parts, 3))
                  m == wire_index(part(parts, 5))
              IN  IF n.err THEN Raise(r)
                  ELSE IF m.err THEN Raise(set_preview(r, n.v))
                  ELSE IF part(parts, 6) = W_start
                  THEN transition(set_preview(r, n.v), m.v)
                  ELSE go(set_preview(r, n.v), m.v)
         ELSE r
    ELSE r

dispatch_obs_go(r, parts, args) ==
    IF check_arg_one(args) THEN go(r, -1) ELSE r

dispatch_obs_recording(r, parts, args) ==
    IF check_arg_one(args) /\ Len(parts) = 4
    THEN IF part(parts, 3) = W_start
         THEN Call(r, Cmd("recording_start", 0, 0, 0))
         ELSE IF part(parts, 3) = W_stop
         THEN Call(r, Cmd("recording_stop", 0, 0, 0))
         ELSE r
    ELSE r

dispatch_obs_streaming(r, parts, args) ==
    IF check_arg_one(args) /\ Len(parts) = 4
    THEN IF part(parts, 3) = W_start
         THEN Call(r, Cmd("streaming_start", 0, 0, 0))
         ELSE IF part(parts, 3) = W_stop
         THEN Call(r, Cmd("streaming_stop", 0, 0, 0))
         ELSE r
    ELSE r

(* dispatch_message on host state h: the run it leaves.                    *)
dispatch_message(h, addressPattern, args) ==
    LET parts == split(addressPattern)
        r == [h |-> h, cmds |-> << >>, raised |-> FALSE]
    IN  IF Len(parts) > 2 /\ part(parts, 1) = W_obs
        THEN IF part(parts, 2) = W_source
             THEN dispatch_obs_source(r, parts, args)
             ELSE IF part(parts, 2) = W_transition
             THEN dispatch_obs_transition(r, parts, args)
             ELSE IF part(parts, 2) = W_scene
             THEN dispatch_obs_scene(r, parts, args)
             ELSE IF part(parts, 2) = W_go
             THEN dispatch_obs_go(r, parts, args)
             ELSE IF part(parts, 2) = W_recording
             THEN dispatch_obs_recording(r, parts, args)
             ELSE IF part(parts, 2) = W_streaming
             THEN dispatch_obs_streaming(r, parts, args)
             ELSE r
        ELSE r

(***************************************************************************)
(* The sender's side of the wire format: a null-terminated string padded   *)
(* with zero bytes to a 4-byte boundary; a message is its padded address,  *)
(* its padded type-tag string "," t1 .. tk, and one value per tag.         *)
(***************************************************************************)
Zeros(k) == [i \in 1..k |-> 0]

pad(s) == s \o Zeros(4 - (Len(s) % 4))

TagOf(a) == IF a.t = "f" THEN TagF ELSE IF a.t = "i" THEN TagI ELSE TagS

RECURSIVE EncodeValues(_)
EncodeValues(args) ==
    IF Len(args) = 0 THEN << >>
    ELSE (IF args[1].t = "s" THEN pad(args[1].v) ELSE args[1].v)
             \o EncodeValues(Tail(args))

Encode(m) ==
    pad(m.addr) \o pad(<<Comma>> \o [i \in 1..Len(m.args) |-> TagOf(m.args[i])])
        \o EncodeValues(m.args)

RECURSIVE Flatten(_)
Flatten(ss) == IF Len(ss) = 0 THEN << >> ELSE Head(ss) \o Flatten(Tail(ss))

EncodeAll(ms) == Flatten([i \in 1..Len(ms) |-> Encode(ms[i])])

Msg(addr, args) == [addr |-> addr, args |-> args]

SeqsUpTo(S, n) == UNION {[1..k -> S] : k \in 0..n}

Path(segs) == Flatten([i \in 1..Len(segs) |-> <<Slash>> \o segs[i]])

(* Argument values: the floats 1.0, 0.0 and 0.75, the integer 1, strings.  *)
F1 == [t |-> "f", v |-> <<63, 128, 0, 0>>]
F075 == [t |-> "f", v |-> <<63, 64, 0, 0>>]
F0 == [t |-> "f", v |-> <<0, 0, 0, 0>>]
I1 == [t |-> "i", v |-> <<0, 0, 0, 1>>]
S4 == StrArg(<<97, 98, 99, 100>>)
SMic == StrArg(<<77, 105, 99>>)

(***************************************************************************)
(* State.                                                                  *)
(*   inbox      datagrams sent to the port and not yet read                *)
(*   data, msglen   self.data, self.msglen of the listener                 *)
(*   dataindex  the local of packet_received                               *)
(*   pc         "idle": the worker is in listen(), outside packet_received *)
(*              "scan": the worker is in the loop of packet_received       *)
(*              "raised": an exception left packet_received                *)
(*   calls      process_message_at calls made for the current datagram     *)
(*   dispatched the (address, args) of the dispatch_message calls made for *)
(*              the current datagram, in order                             *)
(*   last       the latest process_message_at call: its start offset, what *)
(*              it returned, whether and what it dispatched, the host      *)
(*              calls of that dispatch and the host state before it        *)
(*   host       the host state (see above)                                 *)
(***************************************************************************)
VARIABLES inbox, data, msglen, dataindex, pc, calls, dispatched, last, host,
          OBS_OSC_PORT, oscin, listeners, ctl, log, sent,
          rawIndex, aligned

(* The variables of one worker on one datagram, and those of the script's  *)
(* listeners: DecodeSpec, RouteSpec and SourceSpec follow one worker and    *)
(* leave lifeVars as they are, LifeSpec follows the listeners and their     *)
(* workers and leaves workVars as they are.  The host is shared.           *)
(* alignVars are the argument and the result of the index arithmetic when  *)
(* it is applied on its own (AlignSpec).                                   *)
workVars == <<inbox, data, msglen, dataindex, pc, calls, dispatched, last>>

lifeVars == <<OBS_OSC_PORT, oscin, listeners, ctl, log, sent>>

alignVars == <<rawIndex, aligned>>

vars == <<workVars, host, lifeVars, alignVars>>

(* Bounds of the model.                                                    *)
MaxParts == 3
MaxArgs == 2
MaxCut == 4
MaxCalls == 6
MaxScenes == 3
NumTrans == 2
MaxIndex == 3

(* socket.recvfrom(256)                                                    *)
RecvMax == 256

(***************************************************************************)
(* Datagrams of the decoder specification: up to MaxParts parts, first     *)
(* well-formed messages (with at most MaxArgs arguments in all), then      *)
(* arbitrary 4-byte chunks, with up to MaxCut bytes cut off the end.       *)
(***************************************************************************)
DecAddrs == {<<Slash, 97>>, <<Slash, 97, 98, 99>>}

DecArgVals == {F1, I1, S4}

DecMsgs == {Msg(a, as) : a \in DecAddrs, as \in SeqsUpTo(DecArgVals, MaxArgs)}

(* The sequences of at most p messages with at most n arguments in all.    *)
RECURSIVE MsgSeqs(_, _)
MsgSeqs(p, n) ==
    {<< >>} \cup
    (IF p = 0 THEN {}
     ELSE UNION { { <<Msg(a, as)>> \o rest :
                      a \in DecAddrs, as \in [1..k -> DecArgVals],
                      rest \in MsgSeqs(p - 1, n - k) } : k \in 0..n })

JunkChunks ==
    { <<97, 98, 0, 0>>, <<97, 98, 99, 100>>, <<0, 0, 0, 0>>,
      <<Slash, 97, 0, 0>>, <<Comma, 120, 0, 0>> }

CutEnd(d, c) == IF c >= Len(d) THEN << >> ELSE SubSeq(d, 1, Len(d) - c)

DecShapes ==
    { p \in MsgSeqs(MaxParts, MaxArgs) \X SeqsUpTo(JunkChunks, MaxParts) :
        Len(p[1]) + Len(p[2]) <= MaxParts }

DecDatagrams ==
    { CutEnd(EncodeAll(p[1]) \o Flatten(p[2]), c) : p \in DecShapes, c \in 0..MaxCut }

(***************************************************************************)
(* Messages of the router specification: every address shape of the        *)
(* router, with index segments "0" .. MaxIndex and a non-numeric one, and  *)
(* addresses outside the routing table; every argument list of at most     *)
(* MaxArgs of the values below.                                            *)
(***************************************************************************)
Digit(n) == <<48 + n>>

W_bogus == <<98, 111, 103, 117, 115>>
W_thing == <<116, 104, 105, 110, 103>>
W_Mic == <<77, 105, 99>>

IndexSegs == {Digit(n) : n \in 0..MaxIndex} \cup {W_go}

RoutedAddrs ==
    { Path(<<W_obs, W_go>>), Path(<<W_obs, W_transition, W_start>>),
      Path(<<W_obs, W_transition, W_duration>>),
      Path(<<W_obs, W_recording, W_start>>), Path(<<W_obs, W_recording, W_stop>>),
      Path(<<W_obs, W_streaming, W_start>>), Path(<<W_obs, W_streaming, W_stop>>),
      Path(<<W_obs, W_source, W_volume>>),
      Path(<<W_obs, W_source, W_Mic, W_volume>>) }
    \cup { Path(<<W_obs, W_transition, n, w>>) :
             n \in IndexSegs, w \in {W_start, W_select, W_duration} }
    \cup { Path(<<W_obs, W_transition, W_duration, n>>) : n \in IndexSegs }
    \cup { Path(<<W_obs, W_scene, n, w>>) :
             n \in IndexSegs, w \in {W_preview, W_start, W_go} }
    \cup { Path(<<W_obs, W_scene, n, W_transition, m, w>>) :
             n \in IndexSegs, m \in IndexSegs, w \in {W_start, W_go} }

OtherAddrs ==
    { <<Slash>>, Path(<<W_obs>>), Path(<<W_go>>),
      Path(<<W_scene, Digit(1), W_preview>>),
      Path(<<W_obs, W_bogus, W_thing>>),
      Path(<<W_obs, W_go, W_thing>>),
      Path(<<W_obs, W_scene, Digit(1), W_preview, W_thing>>),
      Path(<<W_obs, W_scene, Digit(1), W_bogus>>),
      Path(<<W_obs, W_transition, W_bogus>>),
      Path(<<W_obs, W_recording, W_start, W_thing>>),
      Path(<<W_obs, W_streaming>>),
      Path(<<W_obs, W_source, W_Mic, W_bogus>>) }

RouteAddrs == RoutedAddrs \cup OtherAddrs

RouteArgVals == {F1, F0, I1, SMic}

RouteMsgs == {Msg(a, as) : a \in RouteAddrs, as \in SeqsUpTo(RouteArgVals, MaxArgs)}

RouteDatagrams == {Encode(m) : m \in RouteMsgs}

(* Host states: 1..MaxScenes scenes, NumTrans transitions, any preview     *)
(* scene of the list or none, any current transition of the list.          *)
Hosts ==
    { [nscenes |-> n, ntrans |-> NumTrans, preview |-> p, curtrans |-> c,
       sources |-> <<W_Mic>>] :
        n \in 1..MaxScenes, p \in None..(MaxScenes - 1), c \in 0..(NumTrans - 1) }

ValidHost(h) == h.preview < h.nscenes /\ h.curtrans < h.ntrans

NoCall(h) ==
    [si |-> 0, ret |-> 0, emit |-> FALSE, addr |-> << >>, args |-> << >>,
     cmds |-> << >>, raised |-> FALSE, pre |-> h]

(* The script's globals when it is loaded (lines 21 and 489): the default  *)
(* port, no listener.                                                      *)
DefaultPort == 17999

ScriptLoaded ==
    /\ OBS_OSC_PORT = DefaultPort
    /\ oscin = None
    /\ listeners = << >>
    /\ ctl = [pc |-> "idle", restart |-> FALSE]
    /\ log = << >>
    /\ sent = 0

NotAligning == rawIndex = 0 /\ aligned = None

(* The listener after start_listening, its worker in listen(); one         *)
(* datagram is on its way.                                                 *)
InitWith(D, H) ==
    /\ inbox \in {<<d>> : d \in D}
    /\ host \in {h \in H : ValidHost(h)}
    /\ data = << >>
    /\ msglen = 0
    /\ dataindex = 0
    /\ pc = "idle"
    /\ calls = 0
    /\ dispatched = << >>
    /\ last = NoCall(host)
    /\ ScriptLoaded
    /\ NotAligning

DecodeInit ==
    InitWith(DecDatagrams,
             {[nscenes |-> 1, ntrans |-> 1, preview |-> None, curtrans |-> 0,
               sources |-> << >>]})

RouteInit == InitWith(RouteDatagrams, Hosts)

(* Source commands: the two volume addresses, a name that no source has,   *)
(* neighbouring addresses; hosts whose source list has no, one or two      *)
(* sources named Mic.                                                      *)
SourceAddrs ==
    { Path(<<W_obs, W_source, W_volume>>),
      Path(<<W_obs, W_source, W_Mic, W_volume>>),
      Path(<<W_obs, W_source, W_thing, W_volume>>),
      Path(<<W_obs, W_source, W_Mic, W_bogus>>),
      Path(<<W_obs, W_source, W_volume, W_Mic, W_thing>>),
      Path(<<W_obs, W_source>>) }

SourceArgVals == {F075, F1, I1, SMic}

SourceDatagrams ==
    {Encode(Msg(a, as)) : a \in SourceAddrs, as \in SeqsUpTo(SourceArgVals, MaxArgs)}

SourceHosts ==
    { [nscenes |-> 1, ntrans |-> 1, preview |-> None, curtrans |-> 0,
       sources |-> s] :
        s \in {<< >>, <<W_Mic>>, <<W_bogus, W_Mic>>, <<W_Mic, W_Mic>>} }

SourceInit == InitWith(SourceDatagrams, SourceHosts)

(* listen(), lines 166-169: a datagram is ready; read at most RecvMax      *)
(* bytes of it and enter packet_received.                                  *)
Recv ==
    /\ pc = "idle"
    /\ Len(inbox) > 0
    /\ data' = (IF Len(Head(inbox)) > RecvMax
                THEN SubSeq(Head(inbox), 1, RecvMax) ELSE Head(inbox))
    /\ msglen' = Len(data')
    /\ inbox' = Tail(inbox)
    /\ dataindex' = 0
    /\ pc' = "scan"
    /\ calls' = 0
    /\ dispatched' = << >>
    /\ UNCHANGED <<last, host, lifeVars, alignVars>>

(* One iteration of the loop of packet_received: process_message_at at     *)
(* dataindex, with the dispatch_message call it makes and every host call  *)
(* of that dispatch.  An exception leaves the loop and the worker.         *)
ProcessMessageAt ==
    /\ pc = "scan"
    /\ dataindex >= 0 /\ dataindex < msglen
    /\ calls < MaxCalls
    /\ \E m \in {decode_message_at(data, msglen, dataindex)} :
       \E r \in {IF m.emit THEN dispatch_message(host, m.addr, m.args)
                 ELSE [h |-> host, cmds |-> << >>, raised |-> FALSE]} :
       \E raised \in {m.err \/ r.raised} :
           /\ dispatched' = IF m.emit
                            THEN Append(dispatched, Msg(m.addr, m.args))
                            ELSE dispatched
           /\ host' = r.h
           /\ last' = [si |-> dataindex, ret |-> m.ret, emit |-> m.emit,
                       addr |-> m.addr, args |-> m.args, cmds |-> r.cmds,
                       raised |-> raised, pre |-> host]
           /\ dataindex' = IF raised THEN dataindex ELSE m.ret
           /\ pc' = IF raised THEN "raised" ELSE "scan"
    /\ calls' = calls + 1
    /\ UNCHANGED <<inbox, data, msglen, lifeVars, alignVars>>

(* The loop condition of packet_received fails: back to listen().          *)
PacketDone ==
    /\ pc = "scan"
    /\ ~(dataindex >= 0 /\ dataindex < msglen)
    /\ pc' = "idle"
    /\ UNCHANGED <<inbox, data, msglen, dataindex, calls, dispatched, last, host,
                   lifeVars, alignVars>>

Next == Recv \/ ProcessMessageAt \/ PacketDone

DecodeSpec == DecodeInit /\ [][Next]_vars

RouteSpec == RouteInit /\ [][Next]_vars

SourceSpec == SourceInit /\ [][Next]_vars

(***************************************************************************)
(* The listeners and their workers.  The host's UI thread runs start_osc,  *)
(* stop_osc and port_field_changed, one at a time (ctl is its position     *)
(* inside stop_listening); every OSCListener that start_osc creates has    *)
(* its own socket and its own worker thread in listen().  listeners[w] is  *)
(* the w-th OSCListener: its fields, its socket (port, closed, the queue   *)
(* of datagrams that arrived on it) and its worker (wpc, the locals of     *)
(* listen and packet_received).  Threads interleave between any two reads  *)
(* or writes of shared state.  stopped records that stop_listening has     *)
(* returned, read_after_stop that recvfrom returned a datagram after that. *)
(* log is the sequence of host calls, each with the worker that made it,   *)
(* the arrival number of its datagram and the position of its message.     *)
(***************************************************************************)
MaxListeners == 2
MaxSent == 2

Ports == {DefaultPort, DefaultPort + 1}

LifeHost ==
    [nscenes |-> 2, ntrans |-> 1, preview |-> None, curtrans |-> 0,
     sources |-> << >>]

PreviewMsg(n) == Msg(Path(<<W_obs, W_scene, Digit(n), W_preview>>), <<F1>>)

GoMsg == Msg(Path(<<W_obs, W_go>>), <<F1>>)

(* The datagrams sent to a listener: a preview command, a go command (it   *)
(* sleeps before its last host call), two preview commands in one          *)
(* datagram.                                                               *)
LifeDatagrams ==
    { Encode(PreviewMsg(1)), Encode(GoMsg),
      EncodeAll(<<PreviewMsg(2), PreviewMsg(1)>>) }

(* A faulty start_listening: binds the default port, whatever the          *)
(* configured port.                                                        *)
NewListener_default_port(id, port) ==
    [ udpsocket |-> id, listening |-> TRUE, listen_thread |-> TRUE,
      port |-> DefaultPort, closed |-> FALSE, queue |-> << >>,
      wpc |-> "start", input |-> None, error |-> "", at |-> 0,
      data |-> << >>, msglen |-> 0, dataindex |-> 0, dseq |-> 0, k |-> 0,
      n_scene |-> None, ret |-> 0,
      stopped |-> FALSE, read_after_stop |-> FALSE ]

(* OSCListener() followed by start_listening(port).                        *)
NewListener(id, port) ==
    [ udpsocket |-> id, listening |-> TRUE, listen_thread |-> TRUE,
      port |-> port, closed |-> FALSE, queue |-> << >>,
      wpc |-> "start", input |-> None, error |-> "", at |-> 0,
      data |-> << >>, msglen |-> 0, dataindex |-> 0, dseq |-> 0, k |-> 0,
      n_scene |-> None, ret |-> 0,
      stopped |-> FALSE, read_after_stop |-> FALSE ]

LifeInit ==
    /\ inbox = << >>
    /\ data = << >>
    /\ msglen = 0
    /\ dataindex = 0
    /\ pc = "idle"
    /\ calls = 0
    /\ dispatched = << >>
    /\ host = LifeHost
    /\ last = NoCall(host)
    /\ ScriptLoaded
    /\ NotAligning

(* start_osc(), lines 611-614.                                             *)
start_osc ==
    IF oscin = None
    THEN /\ listeners' = Append(listeners,
                                NewListener(Len(listeners) + 1, OBS_OSC_PORT))
         /\ oscin' = Len(listeners) + 1
    ELSE UNCHANGED <<listeners, oscin>>

(* listen_pressed, script_update: start_osc().                             *)
StartOsc ==
    /\ ctl.pc = "idle"
    /\ Len(listeners) < MaxListeners
    /\ start_osc
    /\ UNCHANGED <<OBS_OSC_PORT, ctl, log, sent, host, workVars, alignVars>>

(* stop_pressed, script_unload: stop_osc() up to the first statement of    *)
(* stop_listening, self.listening = False.                                 *)
StopOsc ==
    /\ ctl.pc = "idle"
    /\ IF oscin # None
       THEN /\ listeners' = [listeners EXCEPT ![oscin].listening = FALSE]
            /\ ctl' = [pc |-> "stop_close", restart |-> FALSE]
       ELSE UNCHANGED <<listeners, ctl>>
    /\ UNCHANGED <<OBS_OSC_PORT, oscin, log, sent, host, workVars, alignVars>>

(* port_field_changed up to the first statement of stop_listening.         *)
PortFieldChanged ==
    /\ ctl.pc = "idle"
    /\ \E pport \in {0} \cup Ports :
        /\ (pport # 0 /\ oscin # None) => Len(listeners) < MaxListeners
        /\ IF pport # 0
           THEN /\ OBS_OSC_PORT' = pport
                /\ IF oscin # None
                   THEN /\ listeners' = [listeners EXCEPT ![oscin].listening = FALSE]
                        /\ ctl' = [pc |-> "stop_close", restart |-> TRUE]
                   ELSE UNCHANGED <<listeners, ctl>>
           ELSE UNCHANGED <<OBS_OSC_PORT, listeners, ctl>>
    /\ UNCHANGED <<oscin, log, sent, host, workVars, alignVars>>

(* stop_listening: self.udpsocket.close()                                  *)
StopClose ==
    /\ ctl.pc = "stop_close"
    /\ listeners' = [listeners EXCEPT ![oscin].closed = TRUE]
    /\ ctl' = [ctl EXCEPT !.pc = "stop_none"]
    /\ UNCHANGED <<OBS_OSC_PORT, oscin, log, sent, host, workVars, alignVars>>

(* stop_listening: self.udpsocket = None, and stop_osc: oscin = None.      *)
StopNone ==
    /\ ctl.pc = "stop_none"
    /\ listeners' = [listeners EXCEPT ![oscin].udpsocket = None,
                                      ![oscin].stopped = TRUE]
    /\ oscin' = None
    /\ ctl' = [ctl EXCEPT !.pc = IF ctl.restart THEN "restart" ELSE "idle"]
    /\ UNCHANGED <<OBS_OSC_PORT, log, sent, host, workVars, alignVars>>

(* port_field_changed: start_osc() after stop_osc().                       *)
Restart ==
    /\ ctl.pc = "restart"
    /\ start_osc
    /\ ctl' = [pc |-> "idle", restart |-> FALSE]
    /\ UNCHANGED <<OBS_OSC_PORT, log, sent, host, workVars, alignVars>>

(* A datagram arrives on a socket that is open.                            *)
Send ==
    /\ sent < MaxSent
    /\ \E w \in 1..Len(listeners), d \in LifeDatagrams :
        /\ ~listeners[w].closed
        /\ listeners' = [listeners EXCEPT
                            ![w].queue = Append(@, [seq |-> sent + 1, bytes |-> d])]
    /\ sent' = sent + 1
    /\ UNCHANGED <<OBS_OSC_PORT, oscin, ctl, log, host, workVars, alignVars>>

(* The worker of listeners[w] ends by an uncaught exception raised at the  *)
(* given line of the source.                                               *)
Crash(w, exc, line) ==
    [listeners EXCEPT ![w].wpc = "crashed", ![w].error = exc, ![w].at = line]

WorkerOnly == UNCHANGED <<OBS_OSC_PORT, oscin, ctl, log, sent, host, workVars, alignVars>>

(* listen(), line 161: input = [self.udpsocket]                            *)
Listen_Input(w) ==
    /\ listeners[w].wpc = "start"
    /\ listeners' = [listeners EXCEPT ![w].input = listeners[w].udpsocket,
                                      ![w].wpc = "while"]
    /\ WorkerOnly

(* line 163: while self.listening                                          *)
Listen_While(w) ==
    /\ listeners[w].wpc = "while"
    /\ listeners' = [listeners EXCEPT
                        ![w].wpc = IF listeners[w].listening THEN "check" ELSE "exit"]
    /\ WorkerOnly

(* line 164, left operand: self.udpsocket != None; when it is None the     *)
(* else branch runs self.listening = false, a NameError (line 173).        *)
Listen_CheckNone(w) ==
    /\ listeners[w].wpc = "check"
    /\ listeners' = IF listeners[w].udpsocket # None
                    THEN [listeners EXCEPT ![w].wpc = "fileno"]
                    ELSE Crash(w, "NameError", 173)
    /\ WorkerOnly

(* line 164, right operand: self.udpsocket.fileno() >= 0; fileno() of a    *)
(* closed socket is -1.                                                    *)
Listen_CheckFileno(w) ==
    /\ listeners[w].wpc = "fileno"
    /\ listeners' = IF listeners[w].udpsocket = None
                    THEN Crash(w, "AttributeError", 164)
                    ELSE IF listeners[w].closed
                    THEN Crash(w, "NameError", 173)
                    ELSE [listeners EXCEPT ![w].wpc = "select"]
    /\ WorkerOnly

(* lines 165-166 and 171: select(input, [], [], 0) on the socket taken at  *)
(* line 161; on a closed socket select raises ValueError; with nothing to  *)
(* read the worker sleeps and loops.                                       *)
Listen_Select(w) ==
    /\ listeners[w].wpc = "select"
    /\ listeners' = IF listeners[w].input = None
                    THEN Crash(w, "TypeError", 165)
                    ELSE IF listeners[w].closed
                    THEN Crash(w, "ValueError", 165)
                    ELSE [listeners EXCEPT
                             ![w].wpc = IF Len(listeners[w].queue) > 0
                                        THEN "recv" ELSE "while"]
    /\ WorkerOnly

(* lines 167-168: self.data, addr = self.udpsocket.recvfrom(256)           *)
Listen_RecvFrom(w) ==
    /\ listeners[w].wpc = "recv"
    /\ listeners' =
         IF listeners[w].udpsocket = None THEN Crash(w, "AttributeError", 167)
         ELSE IF listeners[w].closed THEN Crash(w, "OSError", 167)
         ELSE \* packet_received starts with dataindex = 0
              LET d == Head(listeners[w].queue)
                  bytes == IF Len(d.bytes) > RecvMax
                           THEN SubSeq(d.bytes, 1, RecvMax) ELSE d.bytes
              IN  [listeners EXCEPT ![w].queue = Tail(@),
                                    ![w].data = bytes,
                                    ![w].msglen = Len(bytes),
                                    ![w].dataindex = 0,
                                    ![w].dseq = d.seq,
                                    ![w].k = 0,
                                    ![w].read_after_stop = listeners[w].stopped,
                                    ![w].wpc = "packet"]
    /\ WorkerOnly

(* The address and arguments lead to go(), which sleeps (line 586).        *)
sleeps_in_go(addressPattern, args) ==
    LET parts == split(addressPattern)
    IN  /\ Len(parts) > 2
        /\ part(parts, 1) = W_obs
        /\ part(parts, 2) = W_go
        /\ check_arg_one(args)

Logged(w, cmds) ==
    [i \in 1..Len(cmds) |->
        [w |-> w, dseq |-> listeners[w].dseq, k |-> listeners[w].k + 1,
         cmd |-> cmds[i]]]

(* One iteration of the loop of packet_received in the worker of           *)
(* listeners[w], or its end (its locals are gone); go() runs up to its     *)
(* sleep.                                                                  *)
Listen_PacketReceived(w) ==
    /\ listeners[w].wpc = "packet"
    /\ \E L \in {listeners[w]} :
       IF ~(L.dataindex >= 0 /\ L.dataindex < L.msglen)
       THEN /\ listeners' = [listeners EXCEPT ![w].wpc = "while",
                                              ![w].dataindex = 0,
                                              ![w].dseq = 0,
                                              ![w].k = 0]
            /\ UNCHANGED <<host, log>>
       ELSE \E m \in {decode_message_at(L.data, L.msglen, L.dataindex)} :
            IF m.err
            THEN /\ listeners' = Crash(w, "Exception", 188)
                 /\ UNCHANGED <<host, log>>
            ELSE IF ~m.emit
            THEN /\ listeners' = [listeners EXCEPT ![w].dataindex = m.ret]
                 /\ UNCHANGED <<host, log>>
            ELSE IF sleeps_in_go(m.addr, m.args)
            THEN \E g \in {go_until_sleep([h |-> host, cmds |-> << >>,
                                           raised |-> FALSE], -1)} :
                 /\ host' = g.r.h
                 /\ log' = log \o Logged(w, g.r.cmds)
                 /\ listeners' = [listeners EXCEPT ![w].n_scene = g.n_scene,
                                                   ![w].ret = m.ret,
                                                   ![w].wpc = "sleep"]
            ELSE \E r \in {dispatch_message(host, m.addr, m.args)} :
                 /\ host' = r.h
                 /\ log' = log \o Logged(w, r.cmds)
                 /\ listeners' = IF r.raised THEN Crash(w, "Exception", 188)
                                 ELSE [listeners EXCEPT ![w].dataindex = m.ret,
                                                        ![w].k = @ + 1]
    /\ UNCHANGED <<OBS_OSC_PORT, oscin, ctl, sent, workVars, alignVars>>

(* go() after its sleep: the preview is set to the scene computed before  *)
(* the transition; process_message_at returns.                             *)
Listen_GoAfterSleep(w) ==
    /\ listeners[w].wpc = "sleep"
    /\ \E r \in {go_after_sleep([h |-> host, cmds |-> << >>, raised |-> FALSE],
                                listeners[w].n_scene)} :
        /\ host' = r.h
        /\ log' = log \o Logged(w, r.cmds)
    /\ listeners' = [listeners EXCEPT ![w].dataindex = listeners[w].ret,
                                      ![w].k = @ + 1,
                                      ![w].n_scene = None,
                                      ![w].ret = 0,
                                      ![w].wpc = "packet"]
    /\ UNCHANGED <<OBS_OSC_PORT, oscin, ctl, sent, workVars, alignVars>>

(* line 175: self.listen_thread = None; the thread ends.                   *)
Listen_Exit(w) ==
    /\ listeners[w].wpc = "exit"
    /\ listeners' = [listeners EXCEPT ![w].listen_thread = FALSE,
                                      ![w].wpc = "done"]
    /\ WorkerOnly

LifeNext ==
    \/ StartOsc
    \/ StopOsc
    \/ PortFieldChanged
    \/ StopClose
    \/ StopNone
    \/ Restart
    \/ Send
    \/ \E w \in 1..Len(listeners) : Listen_Input(w)
    \/ \E w \in 1..Len(listeners) : Listen_While(w)
    \/ \E w \in 1..Len(listeners) : Listen_CheckNone(w)
    \/ \E w \in 1..Len(listeners) : Listen_CheckFileno(w)
    \/ \E w \in 1..Len(listeners) : Listen_Select(w)
    \/ \E w \in 1..Len(listeners) : Listen_RecvFrom(w)
    \/ \E w \in 1..Len(listeners) : Listen_PacketReceived(w)
    \/ \E w \in 1..Len(listeners) : Listen_GoAfterSleep(w)
    \/ \E w \in 1..Len(listeners) : Listen_Exit(w)

LifeSpec == LifeInit /\ [][LifeNext]_vars

(***************************************************************************)
(* next_index_for_index on its own, applied to every index up to MaxRaw    *)
(* (a datagram has at most RecvMax bytes).                                 *)
(***************************************************************************)
MaxRaw == 300

AlignInit ==
    /\ inbox = << >>
    /\ data = << >>
    /\ msglen = 0
    /\ dataindex = 0
    /\ pc = "idle"
    /\ calls = 0
    /\ dispatched = << >>
    /\ host = LifeHost
    /\ last = NoCall(host)
    /\ ScriptLoaded
    /\ rawIndex \in 0..MaxRaw
    /\ aligned = None

Align ==
    /\ aligned = None
    /\ aligned' = next_index_for_index(rawIndex)
    /\ UNCHANGED <<workVars, host, lifeVars, rawIndex>>

AlignNext == Align

AlignSpec == AlignInit /\ [][AlignNext]_vars

(* The listeners with no OSC traffic: the controls and the polling loop.   *)
PortNext ==
    \/ StartOsc
    \/ StopOsc
    \/ PortFieldChanged
    \/ StopClose
    \/ StopNone
    \/ Restart
    \/ \E w \in 1..Len(listeners) : Listen_Input(w)
    \/ \E w \in 1..Len(listeners) : Listen_While(w)
    \/ \E w \in 1..Len(listeners) : Listen_CheckNone(w)
    \/ \E w \in 1..Len(listeners) : Listen_CheckFileno(w)
    \/ \E w \in 1..Len(listeners) : Listen_Select(w)
    \/ \E w \in 1..Len(listeners) : Listen_Exit(w)

PortSpec == LifeInit /\ [][PortNext]_vars

(***************************************************************************)
(* Properties of the decoder, checked under DecodeSpec.                    *)
(***************************************************************************)
ScanOver == pc = "idle" /\ calls > 0

(* C1: packet_received terminates on every datagram: it makes finitely     *)
(* many process_message_at calls.  Every call that does not end the scan   *)
(* has to move the offset toward the end of the datagram, so a scan of a   *)
(* datagram of msglen bytes makes at most msglen calls.                    *)
C1_PacketReceivedTerminates == calls <= msglen

(* C2: round trip.  When the datagram is the encoding of one valid message *)
(* m (address starting with '/', arguments float32, int32 or string in any *)
(* order), the scan dispatches exactly one message, equal to m.            *)
C2_RoundTrip ==
    \A m \in DecMsgs :
        (ScanOver /\ data = Encode(m)) => dispatched = <<m>>

(* C3: a datagram of two back-to-back zero-argument messages causes        *)
(* exactly two dispatch_message calls, the first message's address first,  *)
(* each with an empty argument list: the scan makes two calls, each        *)
(* dispatching the next message, and ends.                                 *)
TwoZeroArg(a1, a2) == <<Msg(a1, << >>), Msg(a2, << >>)>>

C3_TwoZeroArgMessages ==
    \A a1 \in DecAddrs, a2 \in DecAddrs :
        (pc # "idle" \/ calls > 0) /\ data = EncodeAll(TwoZeroArg(a1, a2))
        => /\ calls <= 2
           /\ dispatched = SubSeq(TwoZeroArg(a1, a2), 1, calls)
           /\ pc # "raised"
           /\ calls = 2 => ~(dataindex >= 0 /\ dataindex < msglen)

C3_Witness ==
    /\ ScanOver
    /\ calls = 2
    /\ data = EncodeAll(TwoZeroArg(<<Slash, 97, 98, 99>>, <<Slash, 97>>))

(* C4: when a message declares an 's' argument that has no zero terminator *)
(* before the end of the buffer, that message is not dispatched: the       *)
(* dispatched messages are exactly the messages decoded before it.         *)
Unterminated(a) == pad(a) \o pad(<<Comma, TagS>>) \o S4.v

C4_UnterminatedStringStops ==
    \A ms \in MsgSeqs(MaxParts - 1, 0), a \in DecAddrs :
        (ScanOver /\ data = EncodeAll(ms) \o Unterminated(a)) => dispatched = ms

(* C18: cursor monotonicity.  Within one datagram the start offsets of     *)
(* successive process_message_at calls never decrease: every value         *)
(* returned, other than the stop sentinel -1, is at least the start offset *)
(* of that call (and becomes the start offset of the next).                *)
C18_CursorMonotone ==
    (calls > 0 /\ last.ret # -1) => last.ret >= last.si

IsPrefix(a, b) == Len(a) <= Len(b) /\ a = SubSeq(b, 1, Len(a))

(* Zero-argument messages followed by a string that does not start with    *)
(* '/' ("ab") and four more bytes.                                         *)
NonSlashTails == { <<97, 98, 0, 0>> \o c : c \in JunkChunks }

(* C19: when the string at a message's start does not start with '/', the  *)
(* packet ends there: nothing is dispatched for it or after it, and every  *)
(* message before it has been dispatched exactly once, so the dispatched   *)
(* messages are at all times a prefix of the messages before it, and all   *)
(* of them once the string has been met.                                   *)
C19_NonSlashEndsPacket ==
    \A ms \in MsgSeqs(MaxParts - 2, 0), t \in NonSlashTails :
        data = EncodeAll(ms) \o t
        => /\ IsPrefix(dispatched, ms)
           /\ calls > Len(ms) => dispatched = ms

HasInt(m) == \E i \in 1..Len(m.args) : m.args[i].t = "i"

(* C20: an 'i' argument is read from its own value slot and advances the   *)
(* value offset by 4, as 'f' does: the arguments decoded for a message     *)
(* with an integer argument are the encoded ones, the offset returned is   *)
(* the offset just after the last argument, and a message that follows in  *)
(* the same datagram is decoded from its own first byte.                   *)
C20_IntArgAdvances ==
    \A m \in {x \in DecMsgs : HasInt(x)}, rest \in MsgSeqs(1, 0) :
        data = Encode(m) \o EncodeAll(rest)
        => /\ (calls = 1 /\ pc # "raised") =>
                 /\ last.args = m.args
                 /\ rest # << >> => last.ret = Len(Encode(m))
           /\ ScanOver => dispatched = <<m>> \o rest

(* A message whose type tag string holds the unknown tag 'x', followed by  *)
(* four more bytes.                                                        *)
UnknownTag(a, c) == pad(a) \o <<Comma, 120, 0, 0>> \o c

(* C21: when the argument loop meets a type tag other than 'f', 'i', 's'   *)
(* or the zero byte, decoding of that message fails: the stop sentinel is  *)
(* returned and the failing message is not dispatched, with a partial      *)
(* argument list or otherwise, nor is anything after it.                   *)
C21_UnknownTagStops ==
    \A a \in {<<Slash, 97>>}, c \in JunkChunks :
        (calls > 0 /\ data = UnknownTag(a, c))
        => /\ dispatched = << >>
           /\ calls = 1
           /\ last.ret = -1

(* C23: memory safety of the decoder.  Every index of self.data that a     *)
(* process_message_at call reads (the type-tag index tl, the 4 bytes from  *)
(* dl read by unpack_from, the bytes next_zero and string_from_index       *)
(* visit) lies within [0, msglen), for every datagram and every start      *)
(* offset packet_received reaches; no IndexError or struct.error is        *)
(* raised.                                                                 *)
C23_ReadsInBounds ==
    calls > 0 =>
        /\ process_message_at_reads(data, msglen, last.si) \subseteq 0..(msglen - 1)
        /\ pc # "raised"

C23_Witness ==
    /\ calls = 1
    /\ data = Encode(Msg(<<Slash, 97>>, <<S4, F1>>))
    /\ last.args = <<S4, F1>>
    /\ (msglen - 1) \in process_message_at_reads(data, msglen, last.si)

(***************************************************************************)
(* Properties of the router, checked under RouteSpec.  They speak of the   *)
(* latest process_message_at call when it dispatched a message (last.emit):*)
(* last.addr and last.args are what dispatch_message was called with,      *)
(* last.cmds the host calls it made, last.pre the host state before.       *)
(***************************************************************************)
IsNumber(seg) == Len(seg) > 0 /\ \A i \in 1..Len(seg) : IsDigit(seg[i])

(* An argument list of exactly one element equal to 1.0, as Python         *)
(* compares numbers: the float 1.0 or the integer 1.                       *)
ExactlyOne(args) == Len(args) = 1 /\ args[1] \in {F1, I1}

TriggerAddrs ==
    { Path(<<W_obs, W_go>>), Path(<<W_obs, W_transition, W_start>>),
      Path(<<W_obs, W_recording, W_start>>), Path(<<W_obs, W_recording, W_stop>>),
      Path(<<W_obs, W_streaming, W_start>>), Path(<<W_obs, W_streaming, W_stop>>) }
    \cup { Path(<<W_obs, W_transition, n, w>>) :
             n \in IndexSegs, w \in {W_start, W_select} }
    \cup { Path(<<W_obs, W_scene, n, w>>) :
             n \in IndexSegs, w \in {W_preview, W_start, W_go} }
    \cup { Path(<<W_obs, W_scene, n, W_transition, m, w>>) :
             n \in IndexSegs, m \in IndexSegs, w \in {W_start, W_go} }

TableShape(p) ==
    /\ Len(p) > 2
    /\ p[1] = << >>
    /\ p[2] = W_obs
    /\ \/ Len(p) = 3 /\ p[3] = W_go
       \/ Len(p) = 4 /\ p[3] = W_source /\ p[4] = W_volume
       \/ Len(p) = 5 /\ p[3] = W_source /\ p[5] = W_volume
       \/ Len(p) = 4 /\ p[3] = W_transition /\ p[4] \in {W_start, W_duration}
       \/ Len(p) = 5 /\ p[3] = W_transition /\ IsNumber(p[4])
                     /\ p[5] \in {W_start, W_select, W_duration}
       \/ Len(p) = 5 /\ p[3] = W_transition /\ p[4] = W_duration /\ IsNumber(p[5])
       \/ Len(p) = 5 /\ p[3] = W_scene /\ IsNumber(p[4])
                     /\ p[5] \in {W_preview, W_start, W_go}
       \/ Len(p) = 7 /\ p[3] = W_scene /\ IsNumber(p[4]) /\ p[5] = W_transition
                     /\ IsNumber(p[6]) /\ p[7] \in {W_start, W_go}
       \/ Len(p) = 4 /\ p[3] \in {W_recording, W_streaming}
                     /\ p[4] \in {W_start, W_stop}

(* C6: for an address that is not one of the shapes of the routing table   *)
(* (fewer than two segments, first segment not "obs", an unlisted shape or *)
(* extra trailing segments under /obs/), with any argument list,           *)
(* dispatch_message invokes no host command and raises no error.           *)
C6_UnroutedIgnored ==
    (last.emit /\ ~TableShape(split(last.addr)))
    => (last.cmds = << >> /\ ~last.raised)

(* C7: decode and routing never raise: no exception leaves                 *)
(* packet_received, whatever the datagram and the decoded message.         *)
C7_NeverRaises == pc # "raised"

(* The address is a scene or transition command whose index segments are   *)
(* numbers and one of them, less one, is outside the host's list.          *)
OutOfRange(seg, n) == int_of_str(seg).v - 1 \notin 0..(n - 1)

HasOutOfRangeIndex(p, h) ==
    /\ Len(p) > 2
    /\ p[2] = W_obs
    /\ \/ Len(p) = 5 /\ p[3] = W_transition /\ IsNumber(p[4])
                     /\ p[5] \in {W_start, W_select, W_duration}
                     /\ OutOfRange(p[4], h.ntrans)
       \/ Len(p) = 5 /\ p[3] = W_scene /\ IsNumber(p[4])
                     /\ p[5] \in {W_preview, W_start, W_go}
                     /\ OutOfRange(p[4], h.nscenes)
       \/ Len(p) = 7 /\ p[3] = W_scene /\ IsNumber(p[4]) /\ p[5] = W_transition
                     /\ IsNumber(p[6]) /\ p[7] \in {W_start, W_go}
                     /\ (OutOfRange(p[4], h.nscenes) \/ OutOfRange(p[6], h.ntrans))

(* C8: a scene or transition command carrying an index N (or M) such that  *)
(* N-1 is not an index of the current list, N = 0 included, is a no-op on  *)
(* the host (no preview change, no transition selected or run, no duration *)
(* set) and raises nothing.                                                *)
C8_OutOfRangeNoOp ==
    (last.emit /\ HasOutOfRangeIndex(split(last.addr), last.pre))
    => (last.cmds = << >> /\ host = last.pre /\ ~last.raised)

(* C9: index conversion.  For 1 <= N <= number of scenes,                  *)
(* /obs/scene/N/preview with [1.0] sets the preview scene to list index    *)
(* N-1 and invokes no other host command, and with [0.0] invokes none;     *)
(* /obs/transition/N/select with [1.0] selects transition index N-1.       *)
C9_IndexConversion ==
    \A n \in 1..MaxIndex :
        /\ ( /\ last.emit
             /\ last.addr = Path(<<W_obs, W_scene, Digit(n), W_preview>>)
             /\ n <= last.pre.nscenes )
           => /\ last.args = <<F1>>
                 => /\ last.cmds = <<Cmd("set_current_preview_scene", n - 1, 0, 0)>>
                    /\ host = [last.pre EXCEPT !.preview = n - 1]
              /\ last.args = <<F0>> => (last.cmds = << >> /\ host = last.pre)
        /\ ( /\ last.emit
             /\ last.addr = Path(<<W_obs, W_transition, Digit(n), W_select>>)
             /\ n <= last.pre.ntrans
             /\ last.args = <<F1>> )
           => /\ last.cmds = <<Cmd("set_current_transition", n - 1, 0, 0)>>
              /\ host = [last.pre EXCEPT !.curtrans = n - 1]

C9_Witness ==
    /\ last.emit
    /\ last.addr = Path(<<W_obs, W_scene, Digit(3), W_preview>>)
    /\ last.args = <<F1>>
    /\ last.pre.nscenes = 3
    /\ last.pre.preview = 0
    /\ host.preview = 2

IsLevel(a) == a \in {F075, F1, I1}

LevelOf(a) == IF a = F075 THEN <<3, -2>> ELSE <<1, 0>>

Named(h, name) == \E i \in 1..Len(h.sources) : h.sources[i] = name

(* cmds is the one command that sets the volume of a source called name    *)
(* to the level a.                                                         *)
SetsVolume(h, name, a, cmds) ==
    \E i \in 1..Len(h.sources) :
        /\ h.sources[i] = name
        /\ cmds = <<Cmd("source_set_volume", i, LevelOf(a)[1], LevelOf(a)[2])>>

Workers == 1..Len(listeners)

(* C12: under every interleaving of start_osc, stop_osc and                *)
(* port_field_changed with the worker, at most one worker is processing a  *)
(* datagram or executing a command sequence (its settle delay included) at *)
(* any time.                                                               *)
C12_OneWorkerAtATime ==
    Cardinality({w \in Workers : listeners[w].wpc \in {"packet", "sleep"}}) <= 1

(* C13: the worker never calls select (line 165) or recvfrom (line 167)    *)
(* on a socket that stop_listening has closed or set to None.              *)
C13_NoUseOfStoppedSocket ==
    \A w \in Workers :
        listeners[w].wpc = "crashed" => listeners[w].at \notin {165, 167}

(* C14: cancellation.  Once stop_listening has been called on a listener,  *)
(* its worker reads no new datagram, does not end by an exception, and     *)
(* when it has ended it has left the loop normally and reset listen_thread *)
(* to None.                                                                *)
C14_Cancellation ==
    \A w \in Workers :
        listeners[w].stopped =>
            /\ ~listeners[w].read_after_stop
            /\ listeners[w].wpc # "crashed"
            /\ listeners[w].wpc = "done" => ~listeners[w].listen_thread

InOrder(a, b) == a.dseq < b.dseq \/ (a.dseq = b.dseq /\ a.k <= b.k)

(* C16: ordering.  A datagram is decoded, routed and its host commands     *)
(* executed before the socket is polled again, so host commands are        *)
(* executed in the order of the messages inside each datagram and in the   *)
(* arrival order of the datagrams.                                         *)
C16_Ordering ==
    /\ \A i \in 1..Len(log), j \in 1..Len(log) :
           i < j => InOrder(log[i], log[j])
    /\ \A w \in Workers :
           listeners[w].wpc \in {"while", "check", "fileno", "select", "recv"}
           => listeners[w].dataindex = 0

C22_AbsentSocketEndsListening ==
    \A w \in Workers :
        /\ listeners[w].wpc = "crashed" => listeners[w].at \notin {164, 173}
        /\ (listeners[w].wpc = "crashed" /\ listeners[w].udpsocket = None)
           => ~listeners[w].listen_thread

=============================================================================
